---------------------------- MODULE Spec2Model ----------------------------
(***************************************************************************)
(* Yes/No Othello: the turn engine of src/game/core.py (class OthelloGame) *)
(* as a state machine.  The variables are the fields of the game object    *)
(* plus the set of background fetch threads that were launched and whose   *)
(* result has not been handed to handle_api_result yet.  Every action is   *)
(* one call made on the control-loop thread, taken as a whole: place_piece *)
(* includes _advance_turn, the chain of _handle_pass calls and every       *)
(* _prepare_active_stone / _finalize_active_stone they make.               *)
(***************************************************************************)
EXTENDS Integers, Sequences, FiniteSets, TLC

(***************************************************************************)
(* Constants of constants.py (imported by core.py lines 12-25).            *)
(***************************************************************************)
BOARD_SIZE == 8
EMPTY == 0
YES_STONE == 1
NO_STONE == 2
DIRECTIONS ==
    << <<-1, -1>>, <<-1, 0>>, <<-1, 1>>, <<0, -1>>,
       <<0, 1>>,   <<1, -1>>, <<1, 0>>,  <<1, 1>> >>
\* The opponent modes main chooses from (ai_type).
AI_NONE == 0
AI_RANDOM == 1
AI_MINIMAX == 2

\* Python's None where a stone or a side is expected (active_stone, fetching_for).
None == -1
\* Python's None in a cache slot (prefetched_results) and an absent GIF handle.
NoResult == <<>>
NoGif == "None"
Gif == "gif"

\* The answers handle_api_result can be given: _fetch_api_answer lower-cases
\* whatever the service returns, so "other" stands for any string that is none
\* of the three the engine knows.
ANSWERS == {"yes", "no", "maybe", "other"}
SIDES == {YES_STONE, NO_STONE}

\* Bound on the number of accepted placements explored from each start state.
MaxMoves == 1
\* Bound on the number of input events waiting in the window's event queue.
MaxEvents == 2

Coord == 0 .. (BOARD_SIZE - 1)
Cells == Coord \X Coord

InBoard(r, c) == r \in Coord /\ c \in Coord

\* All cells in the order of "for r in range(BOARD_SIZE) for c in range(BOARD_SIZE)".
RowMajor == [i \in 1 .. (BOARD_SIZE * BOARD_SIZE) |->
               <<(i - 1) \div BOARD_SIZE, (i - 1) % BOARD_SIZE>>]

\* self.board[r, c] (0-based) of a board kept as a tuple of rows.
At(b, r, c) == b[r + 1][c + 1]

_opponent(stone) == IF stone = NO_STONE THEN YES_STONE ELSE NO_STONE

\* The while loop shared by _can_flip and _flip_pieces: the number of
\* consecutive cells holding `opponent` met from (r, c) on in direction (dr, dc).
RECURSIVE RunLength(_, _, _, _, _, _)
RunLength(b, r, c, dr, dc, opponent) ==
    IF InBoard(r, c) /\ At(b, r, c) = opponent
    THEN 1 + RunLength(b, r + dr, c + dc, dr, dc, opponent)
    ELSE 0

\* Faulty variant: an empty run counts as a capture.
_can_flip_any_run(b, row, col, dr, dc, stone) ==
    LET n == RunLength(b, row + dr, col + dc, dr, dc, _opponent(stone))
        r == row + (n + 1) * dr
        c == col + (n + 1) * dc
    IN  InBoard(r, c) /\ At(b, r, c) = stone

_can_flip(b, row, col, dr, dc, stone) ==
    LET n == RunLength(b, row + dr, col + dc, dr, dc, _opponent(stone))
        r == row + (n + 1) * dr
        c == col + (n + 1) * dc
    IN  n > 0 /\ InBoard(r, c) /\ At(b, r, c) = stone

is_valid_move(b, row, col, stone) ==
    /\ stone # None
    /\ At(b, row, col) = EMPTY
    /\ \E i \in 1 .. Len(DIRECTIONS) :
          _can_flip(b, row, col, DIRECTIONS[i][1], DIRECTIONS[i][2], stone)

has_valid_moves(b, stone) ==
    stone # None /\ \E p \in Cells : is_valid_move(b, p[1], p[2], stone)

get_valid_moves(b, side) ==
    SelectSeq(RowMajor, LAMBDA p : is_valid_move(b, p[1], p[2], side))

\* "not self.get_valid_moves()": the list of legal moves of `side` is empty.
NoValidMoves(b, side) == \A p \in Cells : ~is_valid_move(b, p[1], p[2], side)

BoardFull(b) == \A p \in Cells : At(b, p[1], p[2]) # EMPTY

\* Faulty variant: the run is flipped whatever follows it.
_flip_pieces_unbounded(b, row, col, dr, dc, stone) ==
    LET n == RunLength(b, row + dr, col + dc, dr, dc, _opponent(stone))
    IN  [i \in 1 .. BOARD_SIZE |-> [j \in 1 .. BOARD_SIZE |->
            IF \E k \in 1 .. n : <<i - 1, j - 1>> = <<row + k * dr, col + k * dc>>
            THEN stone ELSE b[i][j]]]

\* Faulty variant: the captured run is taken off the board.
_flip_pieces_clears(b, row, col, dr, dc, stone) ==
    LET n == RunLength(b, row + dr, col + dc, dr, dc, _opponent(stone))
        r == row + (n + 1) * dr
        c == col + (n + 1) * dc
    IN  IF ~(InBoard(r, c) /\ At(b, r, c) = stone)
        THEN b
        ELSE [i \in 1 .. BOARD_SIZE |-> [j \in 1 .. BOARD_SIZE |->
                IF \E k \in 1 .. n : <<i - 1, j - 1>> = <<row + k * dr, col + k * dc>>
                THEN EMPTY ELSE b[i][j]]]

\* One call of _flip_pieces: the board after it.
_flip_pieces(b, row, col, dr, dc, stone) ==
    LET n == RunLength(b, row + dr, col + dc, dr, dc, _opponent(stone))
        r == row + (n + 1) * dr
        c == col + (n + 1) * dc
    IN  IF ~(InBoard(r, c) /\ At(b, r, c) = stone)
        THEN b
        ELSE [i \in 1 .. BOARD_SIZE |-> [j \in 1 .. BOARD_SIZE |->
                IF \E k \in 1 .. n : <<i - 1, j - 1>> = <<row + k * dr, col + k * dc>>
                THEN stone ELSE b[i][j]]]

\* Faulty variant: the placed stone turns nothing over.
FlipAllDirections_none(b, row, col, stone, i) == b

\* "for dr, dc in DIRECTIONS: self._flip_pieces(...)", directions i .. 8 in turn.
RECURSIVE FlipAllDirections(_, _, _, _, _)
FlipAllDirections(b, row, col, stone, i) ==
    IF i > Len(DIRECTIONS)
    THEN b
    ELSE FlipAllDirections(
             _flip_pieces(b, row, col, DIRECTIONS[i][1], DIRECTIONS[i][2], stone),
             row, col, stone, i + 1)

\* Faulty variant: every neighbour that is not the placed stone's becomes it.
_apply_maybe_event_any_cell(b, row, col, placed_stone) ==
    [i \in 1 .. BOARD_SIZE |-> [j \in 1 .. BOARD_SIZE |->
        IF /\ <<i - 1, j - 1>> # <<row, col>>
           /\ (i - 1) - row \in {-1, 0, 1}
           /\ (j - 1) - col \in {-1, 0, 1}
           /\ b[i][j] # placed_stone
        THEN placed_stone ELSE b[i][j]]]

\* _apply_maybe_event: the 8 neighbours are tested against the board as the
\* earlier neighbours left it; a neighbour never changes another one's test.
_apply_maybe_event(b, row, col, placed_stone) ==
    [i \in 1 .. BOARD_SIZE |-> [j \in 1 .. BOARD_SIZE |->
        IF /\ <<i - 1, j - 1>> # <<row, col>>
           /\ (i - 1) - row \in {-1, 0, 1}
           /\ (j - 1) - col \in {-1, 0, 1}
           /\ b[i][j] = _opponent(placed_stone)
        THEN placed_stone ELSE b[i][j]]]

(***************************************************************************)
(* State.                                                                  *)
(***************************************************************************)
VARIABLES
    board,               \* self.board
    current_side,        \* self.current_side
    active_stone,        \* self.active_stone
    last_answer,         \* self.last_answer
    gif_animation,       \* self.gif_animation
    awaiting_api,        \* self.awaiting_api
    running,             \* self.running
    pass_count,          \* self.pass_count
    prefetched_results,  \* self.prefetched_results
    fetching_for,        \* self.fetching_for
    show_gifs,           \* self.show_gifs (constructor argument)
    screen,              \* whether self.screen is set (constructor argument)
    ai_type,             \* self.ai_type (constructor argument)
    events,              \* the window's event queue read by main, oldest first
    undelivered,         \* per side: fetch threads that ended without handing a result over
    main_pc,             \* where main is: in its loop, past it, or ended by an exception
    threads,             \* per side: fetch threads started and not yet delivered
    resolved,            \* history: _finalize_active_stone has run in the current turn
    moves,               \* accepted placements since the start state
    op                   \* the last call made on the engine and what it did

engine == <<board, current_side, active_stone, last_answer, gif_animation,
            awaiting_api, running, pass_count, prefetched_results, fetching_for>>
config == <<show_gifs, screen, ai_type>>
loop == <<events, undelivered, main_pc>>
vars == <<engine, config, loop, threads, resolved, moves, op>>

\* self.ai_player (line 48): the automated side, if any.
ai_player == IF ai_type # AI_NONE THEN NO_STONE ELSE None

\* The game object as a record, for the methods below; `resolved` is the
\* history variable.  `passes` and
\* `finalized` count the _handle_pass and _finalize_active_stone calls made
\* within the running call; `launched` counts the threads it started.
Game ==
    [board |-> board, current_side |-> current_side, active_stone |-> active_stone,
     last_answer |-> last_answer, gif_animation |-> gif_animation,
     awaiting_api |-> awaiting_api, running |-> running, pass_count |-> pass_count,
     prefetched_results |-> prefetched_results, fetching_for |-> fetching_for,
     threads |-> threads, resolved |-> resolved, passes |-> 0, finalized |-> 0, launched |-> 0]

\* What the environment decides during one _finalize_active_stone call: the
\* stone random.choice picks (line 332) and whether the window is closed while
\* the turn banner is shown (QUIT in _pause_on_board or play_turn_banner).
\* `ch` below is the sequence of these decisions, one per finalize call of the
\* running call (at most two: a turn advance and the pass after it).
NoDraw == [stone |-> YES_STONE, quit |-> FALSE]
\* random.choice is reached only for an answer that is none of the three known.
StoneDraws(answer) == IF answer \in {"maybe", "yes", "no"} THEN {YES_STONE} ELSE SIDES
\* Without a screen no banner is shown and nothing can be closed.
QuitDraws == IF screen THEN BOOLEAN ELSE {FALSE}
Draws(answer) == [stone : StoneDraws(answer), quit : QuitDraws]
\* The draws of a finalize call that consumes cache slot `slot` (none if empty).
SlotDraws(slot) == IF slot = NoResult THEN {NoDraw} ELSE Draws(slot[1])

(***************************************************************************)
(* Prefetch cache: core.py lines 274-279 and 339-348.                      *)
(***************************************************************************)
_start_fetch_thread(g, side) ==
    IF g.fetching_for = side
    THEN g
    ELSE [g EXCEPT !.fetching_for = side,
                   !.threads[side] = @ + 1,
                   !.launched = @ + 1]

_prefetch_for_next_player(g) ==
    LET next_side == _opponent(g.current_side)
    IN  IF ~g.running THEN g
        ELSE IF g.prefetched_results[next_side] # NoResult THEN g
        ELSE IF g.fetching_for = next_side THEN g
        ELSE _start_fetch_thread(g, next_side)

\* _show_turn_banner: without a screen or once stopped it returns at once;
\* otherwise the banner (and the board pause before it) runs its own event
\* loop, and a QUIT event there stops the game.
_show_turn_banner(g, quit) ==
    IF ~(screen /\ g.running) THEN g
    ELSE IF quit THEN [g EXCEPT !.running = FALSE]
    ELSE g

\* Faulty variant: "yes" gives the stone of the side to play.
_finalize_active_stone_yes_own(g, answer, gif, ch) ==
    LET c  == ch[g.finalized + 1]
        g1 == [g EXCEPT !.last_answer = answer,
                        !.gif_animation = gif,
                        !.active_stone =
                            CASE answer = "maybe" -> g.current_side
                              [] answer = "yes"   -> g.current_side
                              [] answer = "no"    -> NO_STONE
                              [] OTHER            -> c.stone,
                        !.resolved = TRUE,
                        !.finalized = @ + 1]
    IN  _prefetch_for_next_player(_show_turn_banner(g1, c.quit))

_finalize_active_stone(g, answer, gif, ch) ==
    LET c  == ch[g.finalized + 1]
        g1 == [g EXCEPT !.last_answer = answer,
                        !.gif_animation = gif,
                        !.active_stone =
                            CASE answer = "maybe" -> g.current_side
                              [] answer = "yes"   -> YES_STONE
                              [] answer = "no"    -> NO_STONE
                              [] OTHER            -> c.stone,
                        !.resolved = TRUE,
                        !.finalized = @ + 1]
    IN  _prefetch_for_next_player(_show_turn_banner(g1, c.quit))

\* Faulty variant: waits for the current side without starting its fetch.
_prepare_active_stone_no_fetch(g, ch) ==
    LET side   == g.current_side
        cached == g.prefetched_results[side]
    IN  IF ~g.running THEN [g EXCEPT !.active_stone = None]
        ELSE IF cached # NoResult
        THEN _finalize_active_stone(
                 [g EXCEPT !.prefetched_results[side] = NoResult,
                           !.awaiting_api = FALSE],
                 cached[1], cached[2], ch)
        ELSE [g EXCEPT !.awaiting_api = TRUE]

_prepare_active_stone(g, ch) ==
    LET side   == g.current_side
        cached == g.prefetched_results[side]
    IN  IF ~g.running THEN [g EXCEPT !.active_stone = None]
        ELSE IF cached # NoResult
        THEN _finalize_active_stone(
                 [g EXCEPT !.prefetched_results[side] = NoResult,
                           !.awaiting_api = FALSE],
                 cached[1], cached[2], ch)
        ELSE IF g.fetching_for = side THEN [g EXCEPT !.awaiting_api = TRUE]
        ELSE _start_fetch_thread([g EXCEPT !.awaiting_api = TRUE], side)

\* Faulty variant: a result ends the current wait whichever side it is for.
handle_api_result_any_side(g, answer, gif, side, ch) ==
    IF ~g.running THEN g
    ELSE LET g1 == IF g.fetching_for = side
                   THEN [g EXCEPT !.fetching_for = None] ELSE g
         IN  IF g1.awaiting_api
             THEN _finalize_active_stone([g1 EXCEPT !.awaiting_api = FALSE],
                                         answer, gif, ch)
             ELSE [g1 EXCEPT !.prefetched_results[side] = <<answer, gif>>]

\* Faulty variant: every result goes to the cache, also the one waited for.
handle_api_result_cache_only(g, answer, gif, side, ch) ==
    IF ~g.running THEN g
    ELSE LET g1 == IF g.fetching_for = side
                   THEN [g EXCEPT !.fetching_for = None] ELSE g
         IN  [g1 EXCEPT !.prefetched_results[side] = <<answer, gif>>]

\* Faulty variant: the result is applied whether or not the game runs.
handle_api_result_ignores_running(g, answer, gif, side, ch) ==
    LET g1 == IF g.fetching_for = side
              THEN [g EXCEPT !.fetching_for = None] ELSE g
    IN  IF g1.awaiting_api /\ side = g1.current_side
        THEN _finalize_active_stone([g1 EXCEPT !.awaiting_api = FALSE],
                                    answer, gif, ch)
        ELSE [g1 EXCEPT !.prefetched_results[side] = <<answer, gif>>]

handle_api_result(g, answer, gif, side, ch) ==
    IF ~g.running THEN g
    ELSE LET g1 == IF g.fetching_for = side
                   THEN [g EXCEPT !.fetching_for = None] ELSE g
         IN  IF g1.awaiting_api /\ side = g1.current_side
             THEN _finalize_active_stone([g1 EXCEPT !.awaiting_api = FALSE],
                                         answer, gif, ch)
             ELSE [g1 EXCEPT !.prefetched_results[side] = <<answer, gif>>]

(***************************************************************************)
(* Turn advance and passes: core.py lines 175-198.                         *)
(***************************************************************************)
\* Faulty variant: the game ends only after more than two passes.
RECURSIVE _handle_pass_late(_, _)
_handle_pass_late(g, ch) ==
    LET g1 == [g EXCEPT !.pass_count = @ + 1, !.passes = @ + 1]
    IN  IF g1.pass_count > 2 \/ BoardFull(g1.board)
        THEN [g1 EXCEPT !.running = FALSE]
        ELSE LET g2 == _prepare_active_stone(
                           [g1 EXCEPT !.current_side = _opponent(g1.current_side),
                                      !.resolved = FALSE], ch)
             IN  IF NoValidMoves(g2.board, g2.current_side)
                 THEN _handle_pass_late(g2, ch)
                 ELSE g2

RECURSIVE _handle_pass(_, _)
_handle_pass(g, ch) ==
    LET g1 == [g EXCEPT !.pass_count = @ + 1, !.passes = @ + 1]
    IN  IF g1.pass_count >= 2 \/ BoardFull(g1.board)
        THEN [g1 EXCEPT !.running = FALSE]
        ELSE LET g2 == _prepare_active_stone(
                           [g1 EXCEPT !.current_side = _opponent(g1.current_side),
                                      !.resolved = FALSE], ch)
             IN  IF NoValidMoves(g2.board, g2.current_side)
                 THEN _handle_pass(g2, ch)
                 ELSE g2

\* Faulty variant: the new side is not tested for a legal move.
_advance_turn_no_pass(g, ch) ==
    IF BoardFull(g.board)
    THEN [g EXCEPT !.running = FALSE]
    ELSE _prepare_active_stone(
             [g EXCEPT !.current_side = _opponent(g.current_side),
                       !.resolved = FALSE], ch)

\* Faulty variant: the turn stays with the side that has just played.
_advance_turn_keeps_side(g, ch) ==
    IF BoardFull(g.board)
    THEN [g EXCEPT !.running = FALSE]
    ELSE LET g1 == _prepare_active_stone([g EXCEPT !.resolved = FALSE], ch)
         IN  IF NoValidMoves(g1.board, g1.current_side)
             THEN _handle_pass(g1, ch)
             ELSE g1

_advance_turn(g, ch) ==
    IF BoardFull(g.board)
    THEN [g EXCEPT !.running = FALSE]
    ELSE LET g1 == _prepare_active_stone(
                       [g EXCEPT !.current_side = _opponent(g.current_side),
                                 !.resolved = FALSE], ch)
         IN  IF NoValidMoves(g1.board, g1.current_side)
             THEN _handle_pass(g1, ch)
             ELSE g1

(***************************************************************************)
(* place_piece: core.py lines 88-112.                                      *)
(***************************************************************************)
\* Whether place_piece shows the GIF popup (the guard of _maybe_show_gif_popup).
PopupShown(g) == show_gifs /\ screen /\ g.gif_animation # NoGif /\ g.running

\* The result of a call: the object after it, the value returned, whether the
\* call raised instead of returning, and the statement that ended it.
Returned(g, ret, at) == [g |-> g, ret |-> ret, raised |-> FALSE, at |-> at]
Raised(g, at) == [g |-> g, ret |-> FALSE, raised |-> TRUE, at |-> at]

\* Faulty variant: the placement leaves pass_count as it was.
PlaceStone_keeps_pass_count(g, row, col, ch) ==
    LET stone == g.active_stone
        owner == g.current_side
        b1 == [g.board EXCEPT ![row + 1][col + 1] = stone]
        b2 == IF stone = owner THEN FlipAllDirections(b1, row, col, stone, 1) ELSE b1
        b3 == IF g.last_answer = "maybe"
              THEN _apply_maybe_event(b2, row, col, stone) ELSE b2
    IN  _advance_turn([g EXCEPT !.board = b3], ch)

\* Lines 95-112, once the move and the popup let the placement through.
PlaceStone(g, row, col, ch) ==
    LET stone == g.active_stone
        owner == g.current_side
        b1 == [g.board EXCEPT ![row + 1][col + 1] = stone]
        b2 == IF stone = owner THEN FlipAllDirections(b1, row, col, stone, 1) ELSE b1
        b3 == IF g.last_answer = "maybe"
              THEN _apply_maybe_event(b2, row, col, stone) ELSE b2
    IN  _advance_turn([g EXCEPT !.board = b3, !.pass_count = 0], ch)

\* Faulty variant: the move is checked for the stone to place, not for the
\* side to play.
place_piece_legal_for_stone(g, row, col, ch, closed) ==
    IF g.awaiting_api \/ ~is_valid_move(g.board, row, col, g.active_stone)
    THEN Returned(g, FALSE, "line 92")
    ELSE IF PopupShown(g) /\ closed
    THEN Returned([g EXCEPT !.running = FALSE], FALSE, "line 94")
    ELSE IF g.active_stone = None
    THEN Raised(g, "line 97")
    ELSE Returned(PlaceStone(g, row, col, ch), TRUE, "line 112")

\* Faulty variant: pass_count is reset before the move is checked.
place_piece_resets_first(g, row, col, ch, closed) ==
    LET g0 == [g EXCEPT !.pass_count = 0]
    IN  IF g0.awaiting_api \/ ~is_valid_move(g0.board, row, col, g0.current_side)
        THEN Returned(g0, FALSE, "line 92")
        ELSE IF PopupShown(g0) /\ closed
        THEN Returned([g0 EXCEPT !.running = FALSE], FALSE, "line 94")
        ELSE IF g0.active_stone = None
        THEN Raised(g0, "line 97")
        ELSE Returned(PlaceStone(g0, row, col, ch), TRUE, "line 112")

\* `closed`: the player closes the window while the popup is shown.
place_piece(g, row, col, ch, closed) ==
    IF g.awaiting_api \/ ~is_valid_move(g.board, row, col, g.current_side)
    THEN Returned(g, FALSE, "line 92")
    ELSE IF PopupShown(g) /\ closed
    THEN Returned([g EXCEPT !.running = FALSE], FALSE, "line 94")
    ELSE IF g.active_stone = None
    \* numpy refuses None in an int array: line 97 raises before any change
    THEN Raised(g, "line 97")
    ELSE Returned(PlaceStone(g, row, col, ch), TRUE, "line 112")

(***************************************************************************)
(* Opponent policy: core.py lines 153-173 and 389-432.                     *)
(***************************************************************************)
\* np.sum(temp_board == intended)
StoneCount(b, stone) == Cardinality({p \in Cells : At(b, p[1], p[2]) = stone})

\* Lines 413-421, one direction on the scratch board.
SimulateDirection(b, row, col, dr, dc, intended) ==
    LET n == RunLength(b, row + dr, col + dc, dr, dc, _opponent(intended))
        r == row + (n + 1) * dr
        c == col + (n + 1) * dc
    IN  IF n > 0 /\ InBoard(r, c) /\ At(b, r, c) = intended
        THEN [i \in 1 .. BOARD_SIZE |-> [j \in 1 .. BOARD_SIZE |->
                IF \E k \in 1 .. n : <<i - 1, j - 1>> = <<row + k * dr, col + k * dc>>
                THEN intended ELSE b[i][j]]]
        ELSE b

\* "for dr, dc in DIRECTIONS" of line 412, directions i .. 8 in turn.
RECURSIVE SimulateDirections(_, _, _, _, _)
SimulateDirections(b, row, col, intended, i) ==
    IF i > Len(DIRECTIONS)
    THEN b
    ELSE SimulateDirections(
             SimulateDirection(b, row, col, DIRECTIONS[i][1], DIRECTIONS[i][2], intended),
             row, col, intended, i + 1)

\* Lines 424-431: the neighbours of the cell on the scratch board.
SimulateMaybe(b, row, col, intended) ==
    [i \in 1 .. BOARD_SIZE |-> [j \in 1 .. BOARD_SIZE |->
        IF /\ <<i - 1, j - 1>> # <<row, col>>
           /\ (i - 1) - row \in {-1, 0, 1}
           /\ (j - 1) - col \in {-1, 0, 1}
           /\ b[i][j] = _opponent(intended)
        THEN intended ELSE b[i][j]]]

\* Faulty variant: the score counts the stones of the other side.
_simulate_move_counts_opponent(g, move) ==
    StoneCount([g.board EXCEPT ![move[1] + 1][move[2] + 1] = g.active_stone],
               _opponent(g.current_side))

\* _simulate_move: the score of a move, worked out on a copy of the board;
\* the board of g is only read.
_simulate_move(g, move) ==
    LET intended == g.current_side
        placed == g.active_stone
        row == move[1]
        col == move[2]
        t1 == [g.board EXCEPT ![row + 1][col + 1] = placed]
        t2 == IF placed = intended
              THEN SimulateDirections(t1, row, col, intended, 1) ELSE t1
        t3 == IF placed = intended /\ g.last_answer = "maybe"
              THEN SimulateMaybe(t2, row, col, intended) ELSE t2
    IN  StoneCount(t3, intended)

\* No move chosen yet (best_move = None).
NoMove == <<>>

\* The loop of lines 393-397 from the i-th move on.
RECURSIVE BestMoveFrom(_, _, _, _, _)
BestMoveFrom(g, legal_moves, i, best_move, best_score) ==
    IF i > Len(legal_moves)
    THEN best_move
    ELSE LET score == _simulate_move(g, legal_moves[i])
         IN  IF score > best_score
             THEN BestMoveFrom(g, legal_moves, i + 1, legal_moves[i], score)
             ELSE BestMoveFrom(g, legal_moves, i + 1, best_move, best_score)

\* `pick`: the index random.choice draws (lines 168 and 399).
_minimax_move(g, legal_moves, pick) ==
    LET best_move == BestMoveFrom(g, legal_moves, 1, NoMove, -1)
    IN  IF best_move = NoMove /\ legal_moves # <<>>
        THEN legal_moves[pick]
        ELSE best_move

\* ai_move.  `ready`: the thinking delay of the turn has elapsed (lines
\* 157-162; the delay itself is not kept, it only postpones the move).
ai_move(g, ready, pick, ch, closed) ==
    IF ai_player # g.current_side \/ g.awaiting_api \/ ~g.running
    THEN Returned(g, FALSE, "line 156")
    ELSE IF ~ready
    THEN Returned(g, FALSE, "line 161")
    ELSE LET legal_moves == get_valid_moves(g.board, g.current_side)
         IN  IF legal_moves = <<>>
             THEN Returned(_handle_pass(g, ch), FALSE, "line 166")
             ELSE IF ai_type = AI_RANDOM
             THEN place_piece(g, legal_moves[pick][1], legal_moves[pick][2], ch, closed)
             ELSE IF ai_type = AI_MINIMAX
             THEN LET move == _minimax_move(g, legal_moves, pick)
                  IN  place_piece(g, move[1], move[2], ch, closed)
             ELSE Returned(g, FALSE, "line 172")

(***************************************************************************)
(* Actions.                                                                *)
(***************************************************************************)
Commit(g) ==
    /\ board' = g.board
    /\ current_side' = g.current_side
    /\ active_stone' = g.active_stone
    /\ last_answer' = g.last_answer
    /\ gif_animation' = g.gif_animation
    /\ awaiting_api' = g.awaiting_api
    /\ running' = g.running
    /\ pass_count' = g.pass_count
    /\ prefetched_results' = g.prefetched_results
    /\ fetching_for' = g.fetching_for
    /\ threads' = g.threads
    /\ resolved' = g.resolved
    /\ UNCHANGED config

(***************************************************************************)
(* What the claims say of a placement, stated on the board before the call *)
(* and independently of the methods above; `op` records it for each call.  *)
(***************************************************************************)
\* Cell p lies, in one of the 8 directions from (row, col), on the contiguous
\* run of cells of the opponent of `stone` that starts next to (row, col), and
\* that run is immediately followed, within bounds, by a cell holding `stone`.
Captured(b, row, col, stone, p) ==
    \E i \in 1 .. Len(DIRECTIONS), k \in 1 .. BOARD_SIZE :
        LET dr == DIRECTIONS[i][1]
            dc == DIRECTIONS[i][2]
        IN  /\ p = <<row + k * dr, col + k * dc>>
            /\ \E n \in (k + 1) .. BOARD_SIZE :
                  /\ InBoard(row + n * dr, col + n * dc)
                  /\ At(b, row + n * dr, col + n * dc) = stone
                  /\ \A j \in 1 .. (n - 1) :
                        At(b, row + j * dr, col + j * dc) = _opponent(stone)

\* Chebyshev distance 1.
Adjacent(p, q) ==
    p # q /\ p[1] - q[1] \in {-1, 0, 1} /\ p[2] - q[2] \in {-1, 0, 1}

\* The number of cells on which boards b and c differ.
Differences(b, c) == Cardinality({p \in Cells : At(b, p[1], p[2]) # At(c, p[1], p[2])})

\* The number of cells a placement of `stone` at (row, col) captures.
Captures(b, row, col, stone) ==
    Cardinality({p \in Cells : Captured(b, row, col, stone, p)})

\* Whether (row, col) is an empty cell next to a stone of the side's opponent.
NextToOpponent(b, row, col, side) ==
    /\ At(b, row, col) = EMPTY
    /\ \E i \in 1 .. Len(DIRECTIONS) :
          LET r == row + DIRECTIONS[i][1]
              c == col + DIRECTIONS[i][2]
          IN  InBoard(r, c) /\ At(b, r, c) = _opponent(side)

\* What `op` keeps of a place_piece call: what it returned and why, whether
\* the cell was a legal move of the side to play, whether the player closed
\* the window during a popup the state called for, how many stones it turned
\* over and how many the placed stone bounded, and the side, stone, answer
\* and pass_count it found.  A refused call keeps the reason (for an illegal cell,
\* whether it touches an opponent stone), not the cell.
PlaceOp(g, row, col, closed, res) ==
    [name |-> "place_piece",
     ret |-> res.ret,
     why |-> CASE res.at = "line 112" -> "placed"
               [] res.at = "line 97"  -> "raised"
               [] res.at = "line 94"  -> "popup closed"
               [] OTHER -> IF g.awaiting_api THEN "awaiting"
                           ELSE IF NextToOpponent(g.board, row, col, g.current_side)
                           THEN "illegal, next to opponent" ELSE "illegal",
     cell |-> IF res.ret THEN <<row, col>> ELSE <<>>,
     legal |-> is_valid_move(g.board, row, col, g.current_side),
     closed |-> PopupShown(g) /\ closed,
     flipped |-> IF res.ret THEN Differences(g.board, res.g.board) - 1 ELSE 0,
     captured |-> IF res.ret THEN Captures(g.board, row, col, g.active_stone) ELSE 0,
     side |-> g.current_side,
     stone |-> g.active_stone,
     answer |-> g.last_answer,
     pass_count |-> g.pass_count,
     passes |-> res.g.passes,
     finalized |-> res.g.finalized,
     launched |-> res.g.launched]

\* A client (a mouse click in main, or ai_move) calls place_piece(row, col);
\* `ch` and `closed` are what the environment does during the call.
PlacePieceCall(row, col, ch, closed) ==
    \E g \in {Game} : \E res \in {place_piece(g, row, col, ch, closed)} :
        /\ res.ret => moves < MaxMoves
        /\ Commit(res.g)
        /\ moves' = IF res.ret THEN moves + 1 ELSE moves
        /\ op' = PlaceOp(g, row, col, closed, res)
        /\ UNCHANGED loop

\* The call split by what the environment can influence: a refused call draws
\* nothing from it, only a shown popup can be closed, and a placement finalizes
\* only from the cache: first the slot of the side that becomes current, then,
\* after a pass, the slot of the side that placed.
PlacePiece(row, col) ==
    IF awaiting_api \/ ~is_valid_move(board, row, col, current_side)
    THEN PlacePieceCall(row, col, <<NoDraw, NoDraw>>, FALSE)
    ELSE \E closed \in IF PopupShown(Game) THEN BOOLEAN ELSE {FALSE},
            c1 \in SlotDraws(prefetched_results[_opponent(current_side)]),
            c2 \in SlotDraws(prefetched_results[current_side]) :
            PlacePieceCall(row, col, <<c1, c2>>, closed)

\* The cell an ai_move call plays, NoMove when it returns before playing one.
AiCell(g, ready, pick) ==
    IF ai_player # g.current_side \/ g.awaiting_api \/ ~g.running \/ ~ready
    THEN NoMove
    ELSE LET legal_moves == get_valid_moves(g.board, g.current_side)
         IN  IF legal_moves = <<>> THEN NoMove
             ELSE IF ai_type = AI_RANDOM THEN legal_moves[pick]
             ELSE IF ai_type = AI_MINIMAX THEN _minimax_move(g, legal_moves, pick)
             ELSE NoMove

\* What `op` keeps of an ai_move call: as for the place_piece call it makes,
\* or the reason why it made none.
AiOp(g, cell, closed, res) ==
    IF cell # NoMove
    THEN [PlaceOp(g, cell[1], cell[2], closed, res) EXCEPT !.name = "ai_move"]
    ELSE [name |-> "ai_move",
          ret |-> FALSE,
          why |-> CASE res.at = "line 156" -> "not its turn"
                    [] res.at = "line 161" -> "not ready"
                    [] res.at = "line 166" -> "passed"
                    [] OTHER -> "no policy",
          cell |-> <<>>,
          legal |-> FALSE,
          closed |-> FALSE,
          flipped |-> 0,
          captured |-> 0,
          side |-> g.current_side,
          stone |-> g.active_stone,
          answer |-> g.last_answer,
          pass_count |-> g.pass_count,
          passes |-> res.g.passes,
          finalized |-> res.g.finalized,
          launched |-> res.g.launched]

AiMoveCall(ready, pick, ch, closed) ==
    \E g \in {Game} : \E res \in {ai_move(g, ready, pick, ch, closed)} :
        /\ res.ret => moves < MaxMoves
        /\ Commit(res.g)
        /\ moves' = IF res.ret THEN moves + 1 ELSE moves
        /\ op' = AiOp(g, AiCell(g, ready, pick), closed, res)
        /\ UNCHANGED loop

\* The indices random.choice can draw from the legal moves of the side to play.
Picks ==
    IF ai_type = AI_RANDOM /\ ~NoValidMoves(board, current_side)
    THEN 1 .. Len(get_valid_moves(board, current_side))
    ELSE {1}

\* main calls ai_move on every tick (Yes_No_Othello.py line 60).  In a game
\* without an automated side the call returns at line 156 whatever the state
\* and is left out.  A call that returns before playing draws nothing from
\* the environment.
AiMove ==
    /\ ai_type # AI_NONE
    /\ IF ai_player # current_side \/ awaiting_api \/ ~running
       THEN AiMoveCall(TRUE, 1, <<NoDraw, NoDraw>>, FALSE)
       ELSE \/ AiMoveCall(FALSE, 1, <<NoDraw, NoDraw>>, FALSE)
            \/ \E pick \in Picks,
                  closed \in IF PopupShown(Game) THEN BOOLEAN ELSE {FALSE},
                  c1 \in SlotDraws(prefetched_results[_opponent(current_side)]),
                  c2 \in SlotDraws(prefetched_results[current_side]) :
                  AiMoveCall(TRUE, pick, <<c1, c2>>, closed)

\* The GIF load_gif_from_url hands over: None unless overlays are enabled,
\* and then the animation (every download taken to succeed).
Gifs == IF show_gifs THEN {Gif} ELSE {NoGif}

DeliverOp(g, side, after) ==
    [name |-> "handle_api_result",
     ret |-> TRUE,
     why |-> IF ~g.running THEN "discarded"
             ELSE IF g.awaiting_api /\ side = g.current_side THEN "resolved"
             ELSE "cached",
     cell |-> <<>>,
     legal |-> FALSE,
     closed |-> FALSE,
     flipped |-> 0,
     captured |-> 0,
     side |-> side,
     stone |-> g.active_stone,
     answer |-> g.last_answer,
     pass_count |-> g.pass_count,
     passes |-> after.passes,
     finalized |-> after.finalized,
     launched |-> after.launched]

\* The result of a fetch started for `side` reaches handle_api_result.
Deliver(side, answer, gif) ==
    /\ threads[side] > 0
    /\ \E c \in Draws(answer), g \in {Game} :
          \E g1 \in {handle_api_result([g EXCEPT !.threads[side] = @ - 1],
                                       answer, gif, side, <<c>>)} :
              /\ Commit(g1)
              /\ UNCHANGED <<moves, loop>>
              /\ op' = DeliverOp(g, side, g1)

HandleApiResult == \E side \in SIDES, answer \in ANSWERS, gif \in Gifs :
                       Deliver(side, answer, gif)

\* What `op` keeps of a fetch thread that has ended.
ThreadOp(side) ==
    [name |-> "_async_fetch_active_stone",
     ret |-> FALSE,
     why |-> "raised",
     cell |-> <<>>,
     legal |-> FALSE,
     closed |-> FALSE,
     flipped |-> 0,
     captured |-> 0,
     side |-> side,
     stone |-> active_stone,
     answer |-> last_answer,
     pass_count |-> pass_count,
     passes |-> 0,
     finalized |-> 0,
     launched |-> 0]

\* Faulty variant: the thread applies its result to the game itself.
_async_fetch_active_stone_applies(side) ==
    /\ threads[side] > 0
    /\ \E answer \in ANSWERS, g \in {Game} :
          \E g1 \in {handle_api_result([g EXCEPT !.threads[side] = @ - 1],
                                       answer, NoGif, side, <<NoDraw>>)} :
              /\ Commit(g1)
              /\ op' = ThreadOp(side)
              /\ UNCHANGED <<events, undelivered, main_pc, moves>>

\* The body of a fetch thread as the source runs it, core.py lines 281-291:
\* line 283 fetches the answer, line 284 calls load_gif_from_url with the
\* keyword session, which the function (gif_utils.py line 16) does not take;
\* the call raises TypeError and the thread ends before line 286 posts the
\* event or line 291 queues the result.  The fetch has completed and its
\* result never reaches handle_api_result; the engine's fields are not
\* touched (fetching_for keeps naming the side).
_async_fetch_active_stone(side) ==
    /\ threads[side] > 0
    /\ threads' = [threads EXCEPT ![side] = @ - 1]
    /\ undelivered' = [undelivered EXCEPT ![side] = @ + 1]
    /\ op' = ThreadOp(side)
    /\ UNCHANGED <<engine, config, events, main_pc, resolved, moves>>

FetchThread == \E side \in SIDES : _async_fetch_active_stone(side)

(***************************************************************************)
(* main: Yes_No_Othello.py lines 47-78.                                    *)
(***************************************************************************)
\* The event types main tells apart: QUIT, MOUSEBUTTONDOWN, and any other
\* type, which its loop drops (KEYDOWN stands for them).  No fetch thread
\* gets as far as posting an API result event.
EventTypes == {"QUIT", "MOUSEBUTTONDOWN", "KEYDOWN"}

\* Where the mouse is when a click is handled (lines 71-73): over a cell, or
\* right of the board.
Outside == <<>>
ClickTargets == Cells \cup {Outside}

\* The state of one pass through the loop body: the game object, whether a
\* call raised, and the placements accepted so far.
Tick(g, raised, placed) == [g |-> g, raised |-> raised, placed |-> placed]

\* Lines 59-60.
TickAiMove(g, ready, pick, ch, closed) ==
    IF g.awaiting_api
    THEN Tick(g, FALSE, 0)
    ELSE LET res == ai_move(g, ready, pick, ch, closed)
         IN  Tick(res.g, res.raised, IF res.ret THEN 1 ELSE 0)

\* Lines 63-74: the events of pygame.event.get(), from the i-th on.  An
\* exception raised by place_piece ends main.
RECURSIVE HandleEvents(_, _, _, _, _, _)
HandleEvents(t, evs, i, clicks, ch, closed) ==
    IF i > Len(evs) \/ t.raised
    THEN t
    ELSE IF evs[i] = "QUIT"
    THEN HandleEvents(Tick([t.g EXCEPT !.running = FALSE], FALSE, t.placed),
                      evs, i + 1, clicks, ch, closed)
    ELSE IF /\ evs[i] = "MOUSEBUTTONDOWN"
            /\ t.g.current_side # ai_player
            /\ ~t.g.awaiting_api
            /\ clicks[i] # Outside
    THEN LET res == place_piece(t.g, clicks[i][1], clicks[i][2], ch, closed)
         IN  HandleEvents(Tick(res.g, res.raised,
                               IF res.ret THEN t.placed + 1 ELSE t.placed),
                          evs, i + 1, clicks, ch, closed)
    ELSE HandleEvents(t, evs, i + 1, clicks, ch, closed)

\* What `op` keeps of a pass through the loop body.
MainOp(g, t) ==
    [name |-> "main",
     ret |-> t.placed > 0,
     why |-> IF t.raised THEN "raised" ELSE "tick",
     cell |-> <<>>,
     legal |-> FALSE,
     closed |-> FALSE,
     flipped |-> 0,
     captured |-> 0,
     side |-> g.current_side,
     stone |-> g.active_stone,
     answer |-> g.last_answer,
     pass_count |-> g.pass_count,
     passes |-> t.g.passes,
     finalized |-> t.g.finalized,
     launched |-> t.g.launched]

\* What the ai_move call of line 60 does to the event queue before line 63
\* reads it.  The popup of its placement (play_gif_popup) and the banner of
\* an answer it resolves from the cache (play_turn_banner) run their own
\* event loops, which take every queued event and end the game on a QUIT;
\* without a banner, _finalize_active_stone still removes the queued clicks
\* (line 316).
QuitQueued == \E i \in 1 .. Len(events) : events[i] = "QUIT"
PopupInAiMove(g, ready, pick) ==
    ~g.awaiting_api /\ AiCell(g, ready, pick) # NoMove /\ PopupShown(g)
BannerInAiMove(g, t) == screen /\ t.g.finalized > 0
EventsGot(g, t, ready, pick) ==
    IF PopupInAiMove(g, ready, pick) \/ BannerInAiMove(g, t)
    THEN <<>>
    ELSE IF t.g.finalized > 0
    THEN SelectSeq(events, LAMBDA e : e # "MOUSEBUTTONDOWN")
    ELSE events

\* One pass through the body of "while game.running".  The loop calls
\* ai_move and place_piece only: it has no branch for API result events and
\* does not call process_pending_results, so no result reaches
\* handle_api_result.  While the engine waits at the start of the pass no call
\* is made and the environment is not drawn from.
MainLoopBody(clicks, ready, pick, ch, closed) ==
    \E g \in {Game} :
        \E t \in {HandleEvents(TickAiMove(g, ready, pick, ch, closed),
                               EventsGot(g, TickAiMove(g, ready, pick, ch, closed),
                                         ready, pick),
                               1, clicks, ch, closed)} :
            /\ QuitQueued /\ PopupInAiMove(g, ready, pick) => closed
            /\ (/\ QuitQueued
                /\ ~PopupInAiMove(g, ready, pick)
                /\ BannerInAiMove(g, TickAiMove(g, ready, pick, ch, closed))) =>
                   ch[1].quit
            /\ moves + t.placed <= MaxMoves
            /\ Commit(t.g)
            /\ moves' = moves + t.placed
            /\ events' = <<>>
            /\ main_pc' = IF t.raised THEN "raised" ELSE "loop"
            /\ op' = MainOp(g, t)
            /\ UNCHANGED undelivered

MainLoop ==
    /\ main_pc = "loop"
    /\ running
    /\ IF awaiting_api
       THEN MainLoopBody([i \in 1 .. Len(events) |-> Outside], TRUE, 1,
                         <<NoDraw, NoDraw>>, FALSE)
       ELSE \E clicks \in [1 .. Len(events) -> ClickTargets],
               ready \in BOOLEAN,
               pick \in Picks,
               closed \in BOOLEAN,
               c1 \in [stone : SIDES, quit : QuitDraws],
               c2 \in [stone : SIDES, quit : QuitDraws] :
               MainLoopBody(clicks, ready, pick, <<c1, c2>>, closed)

\* Lines 77-78: the loop has ended, main prints the winner and quits pygame.
MainExit ==
    /\ main_pc = "loop"
    /\ ~running
    /\ main_pc' = "done"
    /\ UNCHANGED <<engine, config, events, undelivered, threads, resolved, moves, op>>

\* The player (or the window system) adds an event to the queue.
UserEvent ==
    /\ main_pc = "loop"
    /\ Len(events) < MaxEvents
    /\ \E e \in EventTypes : events' = Append(events, e)
    /\ UNCHANGED <<engine, config, undelivered, main_pc, threads, resolved, moves, op>>

Place == \E p \in Cells : PlacePiece(p[1], p[2])

Next == Place \/ HandleApiResult \/ AiMove

(***************************************************************************)
(* Start states.  __init__ (lines 35-62) builds the first; the others are  *)
(* positions the same object reaches later in a game, each given with the  *)
(* answers and moves that lead to it from the first ("y23": the answer     *)
(* "yes" is delivered to the waiting side, which then plays (2, 3); n and  *)
(* m: "no" and "maybe").  In all of them the side to play waits for its     *)
(* answer.                                                                 *)
(***************************************************************************)
\* __init__, lines 37-39
InitialBoard ==
    [i \in 1 .. BOARD_SIZE |-> [j \in 1 .. BOARD_SIZE |->
        IF <<i - 1, j - 1>> \in {<<3, 3>>, <<4, 4>>} THEN NO_STONE
        ELSE IF <<i - 1, j - 1>> \in {<<3, 4>>, <<4, 3>>} THEN YES_STONE
        ELSE EMPTY]]

\* y23 m24 y25 y45 y12: one move before a single pass
BeforePassBoard == <<
    <<0,0,0,0,0,0,0,0>>,
    <<0,0,1,0,0,0,0,0>>,
    <<0,0,0,1,2,1,0,0>>,
    <<0,0,0,2,1,0,0,0>>,
    <<0,0,0,1,2,1,0,0>>,
    <<0,0,0,0,0,0,0,0>>,
    <<0,0,0,0,0,0,0,0>>,
    <<0,0,0,0,0,0,0,0>> >>

\* y23 m24 y25 y45 y12 n35: YES has passed
AfterPassBoard == <<
    <<0,0,0,0,0,0,0,0>>,
    <<0,0,1,0,0,0,0,0>>,
    <<0,0,0,1,2,1,0,0>>,
    <<0,0,0,2,2,2,0,0>>,
    <<0,0,0,1,2,1,0,0>>,
    <<0,0,0,0,0,0,0,0>>,
    <<0,0,0,0,0,0,0,0>>,
    <<0,0,0,0,0,0,0,0>> >>

\* y23 y22: one move before both sides are left without a move
BeforeDoublePassBoard == <<
    <<0,0,0,0,0,0,0,0>>,
    <<0,0,0,0,0,0,0,0>>,
    <<0,0,1,1,0,0,0,0>>,
    <<0,0,0,1,1,0,0,0>>,
    <<0,0,0,1,2,0,0,0>>,
    <<0,0,0,0,0,0,0,0>>,
    <<0,0,0,0,0,0,0,0>>,
    <<0,0,0,0,0,0,0,0>> >>

\* n23: (4, 5) is a legal move of both sides
SharedMoveBoard == <<
    <<0,0,0,0,0,0,0,0>>,
    <<0,0,0,0,0,0,0,0>>,
    <<0,0,0,2,0,0,0,0>>,
    <<0,0,0,2,1,0,0,0>>,
    <<0,0,0,1,2,0,0,0>>,
    <<0,0,0,0,0,0,0,0>>,
    <<0,0,0,0,0,0,0,0>>,
    <<0,0,0,0,0,0,0,0>> >>

\* y54 y53 n23 y55 y22 n21 n11 m45 y46 n56 n24 m32 y66 m63 n12 m65 m64 n76 y67
\* n73 y57 y35 y00 n47 m13 m02 n62 n42 n61 n77 y03 m75 y30 n10 y41 n04 n52 n31
\* y14 n51 y36 n20 m40 n25 y37 y01 y16 n07 y74 n60 n26 n27 n71 n72 y17 m15 m05
\* y50 y70: one cell left, a legal move of the side to play
LastCellBoard == <<
    <<1,1,1,1,1,1,0,2>>,
    <<2,2,1,1,1,1,1,1>>,
    <<2,2,1,1,2,1,2,2>>,
    <<1,1,1,2,2,1,2,2>>,
    <<1,1,2,2,1,2,1,2>>,
    <<1,2,1,2,2,2,1,2>>,
    <<1,1,2,2,1,1,2,2>>,
    <<1,1,1,1,1,2,2,2>> >>

\* y23 m24 y25 y45 y12 n35 n13, the answer of the second n delivered while
\* the fetch started for YES during the first was still in flight
TwoFetchesBoard == <<
    <<0,0,0,0,0,0,0,0>>,
    <<0,0,1,2,0,0,0,0>>,
    <<0,0,0,2,2,1,0,0>>,
    <<0,0,0,2,2,2,0,0>>,
    <<0,0,0,1,2,1,0,0>>,
    <<0,0,0,0,0,0,0,0>>,
    <<0,0,0,0,0,0,0,0>>,
    <<0,0,0,0,0,0,0,0>> >>

\* y23: the first move of the YES side
FirstMoveBoard == <<
    <<0,0,0,0,0,0,0,0>>,
    <<0,0,0,0,0,0,0,0>>,
    <<0,0,0,1,0,0,0,0>>,
    <<0,0,0,1,1,0,0,0>>,
    <<0,0,0,1,2,0,0,0>>,
    <<0,0,0,0,0,0,0,0>>,
    <<0,0,0,0,0,0,0,0>>,
    <<0,0,0,0,0,0,0,0>> >>

NoOp == [name |-> "__init__", ret |-> TRUE, why |-> "", cell |-> <<>>,
         legal |-> FALSE, closed |-> FALSE, flipped |-> 0, captured |-> 0,
         side |-> YES_STONE, stone |-> YES_STONE, answer |-> "-",
         pass_count |-> 0, passes |-> 0, finalized |-> 0, launched |-> 1]

\* The state in which a side has just become current with its fetch in flight.
Waiting(b, side, stone, answer) ==
    /\ board = b
    /\ current_side = side
    /\ active_stone = stone
    /\ last_answer = answer
    /\ gif_animation = NoGif
    /\ awaiting_api = TRUE
    /\ running = TRUE
    /\ pass_count = 0
    /\ prefetched_results = [s \in SIDES |-> NoResult]
    /\ fetching_for = side
    /\ threads = [s \in SIDES |-> IF s = side THEN 1 ELSE 0]
    /\ resolved = FALSE
    /\ moves = 0
    /\ op = NoOp
    /\ events = <<>>
    /\ undelivered = [s \in SIDES |-> 0]
    /\ main_pc = "loop"

\* NO's placement has left YES without a move: the pass gave the turn back to
\* NO and started its fetch; the prefetch for YES, begun during NO's turn, has
\* since delivered "yes", which went to the cache.
AfterPass ==
    /\ board = AfterPassBoard
    /\ current_side = NO_STONE
    /\ active_stone = NO_STONE
    /\ last_answer = "no"
    /\ gif_animation = NoGif
    /\ awaiting_api = TRUE
    /\ running = TRUE
    /\ pass_count = 1
    /\ prefetched_results = [s \in SIDES |-> IF s = YES_STONE THEN <<"yes", NoGif>>
                                                              ELSE NoResult]
    /\ fetching_for = NO_STONE
    /\ threads = [s \in SIDES |-> IF s = NO_STONE THEN 1 ELSE 0]
    /\ resolved = FALSE
    /\ moves = 0
    /\ op = NoOp
    /\ events = <<>>
    /\ undelivered = [s \in SIDES |-> 0]
    /\ main_pc = "loop"

\* After YES's pass NO got its answer while the prefetch for YES was still in
\* flight, which started a second fetch for YES (fetching_for named NO by
\* then); NO has played and YES waits, with both its fetches in flight.
TwoFetches ==
    /\ board = TwoFetchesBoard
    /\ current_side = YES_STONE
    /\ active_stone = NO_STONE
    /\ last_answer = "no"
    /\ gif_animation = NoGif
    /\ awaiting_api = TRUE
    /\ running = TRUE
    /\ pass_count = 0
    /\ prefetched_results = [s \in SIDES |-> NoResult]
    /\ fetching_for = YES_STONE
    /\ threads = [s \in SIDES |-> IF s = YES_STONE THEN 2 ELSE 0]
    /\ resolved = FALSE
    /\ moves = 0
    /\ op = NoOp
    /\ events = <<>>
    /\ undelivered = [s \in SIDES |-> 0]
    /\ main_pc = "loop"

\* __init__, lines 37-60: the fields as set before the first request.
NewGame ==
    [board |-> InitialBoard, current_side |-> YES_STONE, active_stone |-> YES_STONE,
     last_answer |-> "-", gif_animation |-> NoGif,
     awaiting_api |-> FALSE, running |-> TRUE, pass_count |-> 0,
     prefetched_results |-> [s \in SIDES |-> NoResult], fetching_for |-> None,
     threads |-> [s \in SIDES |-> 0], resolved |-> FALSE,
     passes |-> 0, finalized |-> 0, launched |-> 0]

\* Faulty variant: the constructor makes no first request.
__init__no_request == NewGame

\* __init__: lines 37-60 set the fields, line 61 calls _prepare_active_stone,
\* which finds no cached result and no fetch in flight.
__init__ == _prepare_active_stone(NewGame, <<NoDraw, NoDraw>>)

\* The state right after construction.
Constructed ==
    \E g \in {__init__} :
        /\ board = g.board
        /\ current_side = g.current_side
        /\ active_stone = g.active_stone
        /\ last_answer = g.last_answer
        /\ gif_animation = g.gif_animation
        /\ awaiting_api = g.awaiting_api
        /\ running = g.running
        /\ pass_count = g.pass_count
        /\ prefetched_results = g.prefetched_results
        /\ fetching_for = g.fetching_for
        /\ threads = g.threads
        /\ resolved = g.resolved
        /\ moves = 0
        /\ op = [NoOp EXCEPT !.why = "constructed", !.launched = g.launched]
        /\ events = <<>>
        /\ undelivered = [s \in SIDES |-> 0]
        /\ main_pc = "loop"

\* A game built with the constructor's defaults (no screen, no GIF overlays),
\* at its start or at one of the later positions.
Headless ==
    /\ show_gifs = FALSE
    /\ screen = FALSE
    /\ ai_type = AI_NONE
    /\ \/ Constructed
       \/ Waiting(SharedMoveBoard, NO_STONE, NO_STONE, "no")
       \/ Waiting(BeforeDoublePassBoard, YES_STONE, YES_STONE, "yes")
       \/ Waiting(BeforePassBoard, NO_STONE, YES_STONE, "yes")
       \/ AfterPass
       \/ TwoFetches
       \/ Waiting(LastCellBoard, NO_STONE, YES_STONE, "yes")

\* A game against an automated NO side, after the player's first move.
HeadlessAi ==
    /\ show_gifs = FALSE
    /\ screen = FALSE
    /\ ai_type \in {AI_RANDOM, AI_MINIMAX}
    /\ Waiting(FirstMoveBoard, NO_STONE, YES_STONE, "yes")

\* A game built as main does when the player enables the overlays, at its start.
\* main, lines 49-55: a screen, and the modes chosen at the prompts.
MainInit ==
    /\ show_gifs \in BOOLEAN
    /\ screen = TRUE
    /\ ai_type \in {AI_NONE, AI_RANDOM, AI_MINIMAX}
    /\ Constructed

OnScreen ==
    /\ show_gifs = TRUE
    /\ screen = TRUE
    /\ ai_type = AI_NONE
    /\ Constructed

Init == Headless \/ HeadlessAi \/ OnScreen

Spec == Init /\ [][Next]_vars

\* The engine when results can be lost: the result of a fetch either reaches
\* handle_api_result or the thread ends without handing it over.
LossyNext == Next \/ FetchThread
LossySpec == Init /\ [][LossyNext]_vars

\* The program as main runs it: the loop, the player's events and the fetch
\* threads; the loop keeps turning while the game runs and every thread ends.
MainNext == MainLoop \/ MainExit \/ UserEvent \/ FetchThread
MainSpec ==
    /\ MainInit
    /\ [][MainNext]_vars
    /\ WF_vars(MainLoop)
    /\ WF_vars(MainExit)
    /\ WF_vars(FetchThread)

(***************************************************************************)
(* Claims.                                                                 *)
(***************************************************************************)

\* C1: in every reachable state each side has at most one background fetch in
\* flight (started and not yet delivered to handle_api_result).
C1_SingleFlight == \A s \in SIDES : threads[s] <= 1

\* The running game under the scheduling the claim assumes: the result of every
\* fetch started for a side eventually reaches handle_api_result.
Delivery(side) == \E answer \in ANSWERS, gif \in Gifs : Deliver(side, answer, gif)
FairSpec == Init /\ [][Next]_vars /\ \A side \in SIDES : WF_vars(Delivery(side))

\* C2: while the game waits for the answer of the current side a fetch for that
\* side is in flight, and every wait is eventually followed by a state in
\* which the game no longer waits or no longer runs.
C2_WaitEnds ==
    /\ [](running /\ awaiting_api => threads[current_side] > 0)
    /\ (awaiting_api ~> (~awaiting_api \/ ~running))

\* a wait begun by a pass has been ended by the delivery of the answer
C2_Witness ==
    /\ op.name = "handle_api_result"
    /\ op.why = "resolved"
    /\ pass_count = 1
    /\ ~awaiting_api

\* The stones a resolved answer may make active: the current side's for
\* "maybe", the answer's own for "yes" and "no", either for anything else.
StonesFor(answer, side) ==
    CASE answer = "maybe" -> {side}
      [] answer = "yes"   -> {YES_STONE}
      [] answer = "no"    -> {NO_STONE}
      [] OTHER            -> SIDES

\* C3: a result delivered for side s while the game runs resolves the turn
\* when the game waits and s is the current side (awaiting_api becomes false,
\* last_answer and active_stone are set from the answer); otherwise it goes to
\* the cache slot of s and current_side, active_stone, last_answer and the
\* board stay as they are.  Only the state at delivery decides.
C3_Routing ==
    [][\A side \in SIDES, answer \in ANSWERS, gif \in Gifs :
          (running /\ Deliver(side, answer, gif)) =>
              IF awaiting_api /\ side = current_side
              THEN /\ ~awaiting_api'
                   /\ last_answer' = answer
                   /\ active_stone' \in StonesFor(answer, current_side)
                   /\ prefetched_results' = prefetched_results
              ELSE /\ prefetched_results' =
                          [prefetched_results EXCEPT ![side] = <<answer, gif>>]
                   /\ UNCHANGED <<current_side, active_stone, last_answer,
                                  board, awaiting_api>>]_vars

\* after a pass the game waits for one side and the result of the fetch
\* started earlier for the other side arrives: it is cached
C3_Witness ==
    /\ op.name = "handle_api_result"
    /\ op.why = "cached"
    /\ running /\ awaiting_api
    /\ op.side # current_side
    /\ prefetched_results[op.side] # NoResult

\* C4: between calls, while the game runs, awaiting_api is true exactly when
\* the cache slot of current_side is empty and no answer has been resolved
\* into last_answer/active_stone since current_side got the turn; awaiting_api
\* never holds together with a cached result for current_side.
C4_AwaitingIff ==
    running =>
        /\ awaiting_api <=>
               (prefetched_results[current_side] = NoResult /\ ~resolved)
        /\ ~(awaiting_api /\ prefetched_results[current_side] # NoResult)

\* a placement handed the turn to a side whose answer was already cached: the
\* turn is resolved from the cache within the call and the game does not wait
C4_Witness ==
    /\ op.name = "place_piece"
    /\ op.ret
    /\ op.finalized = 1
    /\ running
    /\ ~awaiting_api
    /\ resolved

\* C5: a place_piece call made while awaiting_api is true, or at a cell that
\* is not a legal move of current_side, returns False and changes nothing:
\* board, current_side, active_stone, last_answer, pass_count, running, the
\* cache slots, the in-flight marker (and the other fields and the threads).
C5_RejectedUnchanged ==
    [][(op'.name = "place_piece" /\ (awaiting_api \/ ~op'.legal)) =>
           /\ ~op'.ret
           /\ UNCHANGED <<engine, threads, resolved>>]_vars

\* place_piece has just refused an illegal cell in a running game that was
\* not waiting for an answer
C5_Witness ==
    /\ op.name = "place_piece"
    /\ ~op.ret
    /\ ~op.legal
    /\ running
    /\ ~awaiting_api

\* C6 as stated: place_piece accepts a cell exactly when the engine is not
\* awaiting an answer and the cell is a legal move of current_side.
C6_AcceptIffLegal ==
    [][op'.name = "place_piece" =>
           (op'.ret <=> (~awaiting_api /\ op'.legal))]_vars

\* C6, amended: while the game is running place_piece accepts a cell exactly
\* when the engine is not awaiting an answer, the cell is a legal move of
\* current_side and the player does not close the window during the GIF popup
\* of the call; active_stone and last_answer play no part.
C6_AcceptIffLegalAndOpen ==
    [][(running /\ op'.name = "place_piece") =>
           (op'.ret <=> (~awaiting_api /\ op'.legal /\ ~op'.closed))]_vars

\* with last_answer = maybe, place_piece has refused an empty cell next to an
\* opponent stone that captures nothing for current_side
C6_Witness ==
    /\ op.name = "place_piece"
    /\ ~op.ret
    /\ op.answer = "maybe"
    /\ op.why = "illegal, next to opponent"
    /\ running
    /\ ~awaiting_api

\* The cells of a placement at `cell` that the sandwich rule alone decides:
\* all of them, except the neighbours of `cell` when the answer was "maybe".
SandwichOnly(cell, answer) == {p \in Cells : answer # "maybe" \/ ~Adjacent(p, cell)}

\* C7 as stated: an accepted placement puts active_stone on the cell and flips
\* to active_stone, in each direction, exactly the run of opponent cells that
\* is followed by an active_stone cell, whether or not active_stone is the
\* stone of current_side.
C7_FlipsForActiveStone ==
    [][(op'.name = "place_piece" /\ op'.ret) =>
           \A p \in SandwichOnly(op'.cell, last_answer) :
               At(board', p[1], p[2]) =
                   IF p = op'.cell
                      \/ Captured(board, op'.cell[1], op'.cell[2], active_stone, p)
                   THEN active_stone
                   ELSE At(board, p[1], p[2])]_vars

\* C7, amended: an accepted placement puts active_stone on the cell; when
\* active_stone is the stone of current_side it flips, in each direction,
\* exactly the run of opponent cells that is followed by an active_stone cell;
\* when active_stone differs from current_side it flips nothing (the answer
\* is then never "maybe", so that only the target cell changes).
C7_FlipsForOwnStone ==
    [][(op'.name = "place_piece" /\ op'.ret) =>
           /\ active_stone # current_side => last_answer # "maybe"
           /\ \A p \in SandwichOnly(op'.cell, last_answer) :
                 At(board', p[1], p[2]) =
                     IF p = op'.cell
                        \/ /\ active_stone = current_side
                           /\ Captured(board, op'.cell[1], op'.cell[2], active_stone, p)
                     THEN active_stone
                     ELSE At(board, p[1], p[2])]_vars

\* a stone that is not the mover's has been placed on a cell from which it
\* bounds a run of the other stone: the run is still there
C7_Witness ==
    /\ op.name = "place_piece"
    /\ op.ret
    /\ op.stone # op.side
    /\ At(board, op.cell[1], op.cell[2]) = op.stone
    /\ \E i \in 1 .. Len(DIRECTIONS) :
          _can_flip(board, op.cell[1], op.cell[2],
                    DIRECTIONS[i][1], DIRECTIONS[i][2], op.stone)

\* C8: an accepted placement with last_answer = maybe turns, besides the
\* sandwich flips, every cell at Chebyshev distance 1 from the placed cell
\* that holds the opponent's stone into the placed stone; neighbours that are
\* empty or already the placed stone's, and cells further away that no
\* sandwich flip covers, stay as they are.  With any other answer no
\* neighbour is turned unless a sandwich flip covers it.
C8_MaybeRadius ==
    [][(op'.name = "place_piece" /\ op'.ret) =>
           \A p \in Cells \ {op'.cell} :
               At(board', p[1], p[2]) =
                   IF /\ active_stone = current_side
                      /\ Captured(board, op'.cell[1], op'.cell[2], active_stone, p)
                   THEN active_stone
                   ELSE IF /\ last_answer = "maybe"
                           /\ Adjacent(p, op'.cell)
                           /\ At(board, p[1], p[2]) = _opponent(active_stone)
                   THEN active_stone
                   ELSE At(board, p[1], p[2])]_vars

\* a placement made on the answer "maybe" has turned over more stones than
\* the placed stone bounded, and has left an empty neighbour empty
C8_Witness ==
    /\ op.name = "place_piece"
    /\ op.ret
    /\ op.answer = "maybe"
    /\ op.flipped > op.captured
    /\ op.captured > 0
    /\ \E p \in Cells : Adjacent(p, op.cell) /\ At(board, p[1], p[2]) = EMPTY

\* C9: pass_count is always 0, 1 or 2; an accepted placement sets it to 0
\* and each pass made within the call then adds exactly 1 (no other call
\* changes it); and whenever it is 2, or the board has no empty cell, running
\* is false.
C9_PassCount ==
    /\ [](pass_count \in {0, 1, 2})
    /\ []((pass_count = 2 \/ BoardFull(board)) => ~running)
    /\ [][pass_count' = IF op'.name = "place_piece" /\ op'.ret
                        THEN op'.passes ELSE pass_count]_vars

\* a placement made after a pass (pass_count was 1) has set pass_count back
\* to 0 and the game goes on
C9_Witness ==
    /\ op.name = "place_piece"
    /\ op.ret
    /\ op.pass_count = 1
    /\ op.passes = 0
    /\ pass_count = 0
    /\ running

\* C10: when a placement leaves neither side with a legal move the game is
\* over (running = false) by the end of that call, however many cells are
\* empty and whether or not an answer is awaited; no call makes more than
\* two passes.
C10_DoublePassEnds ==
    /\ []((NoValidMoves(board, YES_STONE) /\ NoValidMoves(board, NO_STONE))
              => ~running)
    /\ [][op'.passes <= 2]_vars

\* a placement has left both sides without a move on a board with empty
\* cells: two passes were made, the second while the game awaited the answer
\* the first had asked for, and the game is over
C10_Witness ==
    /\ op.name = "place_piece"
    /\ op.ret
    /\ op.passes = 2
    /\ pass_count = 2
    /\ ~BoardFull(board)
    /\ awaiting_api
    /\ ~running

\* C11: once running is false nothing changes any more: every later call
\* (place_piece for any cell, ai_move, a delivery to handle_api_result, alone
\* or from process_pending_results) leaves board, current_side, active_stone,
\* last_answer, pass_count and running as they are.
C11_TerminalAbsorbing ==
    [][~running => UNCHANGED <<board, current_side, active_stone, last_answer,
                               pass_count, running>>]_vars

\* C12: an answer resolved for the current side, whether delivered to the
\* waiting engine or taken from the cache when the side gets the turn, becomes
\* last_answer, and active_stone follows the convention: the YES stone for
\* "yes" and the NO stone for "no" whichever side is current, the stone of
\* current_side for "maybe", either stone for any other answer.  As long as
\* the turn stays resolved active_stone is one of the two stones.
C12_StoneConvention ==
    /\ [](resolved => /\ last_answer \in ANSWERS
                      /\ active_stone \in SIDES
                      /\ active_stone \in StonesFor(last_answer, current_side))
    /\ [][\A side \in SIDES, answer \in ANSWERS, gif \in Gifs :
             (running /\ awaiting_api /\ side = current_side
                  /\ Deliver(side, answer, gif)) =>
                 /\ resolved'
                 /\ last_answer' = answer
                 /\ active_stone' \in StonesFor(answer, current_side)]_vars
    /\ [][(op'.name \in {"place_piece", "ai_move"} /\ op'.finalized > 0 /\ resolved') =>
             /\ prefetched_results[current_side'] # NoResult
             /\ last_answer' = prefetched_results[current_side'][1]]_vars

\* an answer that is none of the three known ones has been resolved for the
\* waiting side and the draw gave it the stone of the other side
C12_Witness ==
    /\ op.name = "handle_api_result"
    /\ op.why = "resolved"
    /\ resolved
    /\ last_answer = "other"
    /\ active_stone = _opponent(current_side)
    /\ running

\* The sandwich rule as the claim words it: the cell is empty and, in one of
\* the 8 directions, the n >= 1 cells next to it hold the opponent's stone
\* and the cell after them, inside the grid, holds the stone of `side`.
Sandwich(b, row, col, side) ==
    /\ At(b, row, col) = EMPTY
    /\ \E i \in 1 .. Len(DIRECTIONS), n \in 1 .. (BOARD_SIZE - 2) :
          LET dr == DIRECTIONS[i][1]
              dc == DIRECTIONS[i][2]
          IN  /\ InBoard(row + (n + 1) * dr, col + (n + 1) * dc)
              /\ At(b, row + (n + 1) * dr, col + (n + 1) * dc) = side
              /\ \A j \in 1 .. n :
                    At(b, row + j * dr, col + j * dc) = _opponent(side)

\* Cell p comes before cell q in row-major order.
RowMajorBefore(p, q) == p[1] < q[1] \/ (p[1] = q[1] /\ p[2] < q[2])

\* C13: on every board the game reaches, for every cell and side,
\* is_valid_move is true exactly when the cell is empty and some direction
\* holds, from the cell on, one or more opponent cells immediately followed
\* inside the grid by a cell of the side; get_valid_moves lists exactly these
\* cells for current_side, each once, in row-major order.
C13_LegalMoves ==
    /\ \A p \in Cells, side \in SIDES :
          is_valid_move(board, p[1], p[2], side) <=> Sandwich(board, p[1], p[2], side)
    /\ \E legal_moves \in {get_valid_moves(board, current_side)} :
          /\ \A p \in Cells :
                (\E i \in 1 .. Len(legal_moves) : legal_moves[i] = p)
                    <=> Sandwich(board, p[1], p[2], current_side)
          /\ \A i, j \in 1 .. Len(legal_moves) :
                i < j => RowMajorBefore(legal_moves[i], legal_moves[j])

\* after a placement the side to play has several legal moves, one of them
\* over a run of two or more opponent stones, and an empty cell next to an
\* opponent stone that is no legal move
C13_Witness ==
    /\ op.name = "place_piece"
    /\ op.ret
    /\ Len(get_valid_moves(board, current_side)) >= 2
    /\ \E p \in Cells, i \in 1 .. Len(DIRECTIONS) :
          /\ is_valid_move(board, p[1], p[2], current_side)
          /\ _can_flip(board, p[1], p[2], DIRECTIONS[i][1], DIRECTIONS[i][2], current_side)
          /\ RunLength(board, p[1] + DIRECTIONS[i][1], p[2] + DIRECTIONS[i][2],
                       DIRECTIONS[i][1], DIRECTIONS[i][2], _opponent(current_side)) >= 2
    /\ \E q \in Cells :
          /\ NextToOpponent(board, q[1], q[2], current_side)
          /\ ~is_valid_move(board, q[1], q[2], current_side)

\* C14: whenever place_piece accepts a placement (called directly or by
\* ai_move) the cache slot of current_side is empty at the moment of the call:
\* a result cached for the side to play has been consumed before.
C14_OwnSlotEmpty ==
    [][(op'.name \in {"place_piece", "ai_move"} /\ op'.ret) =>
           prefetched_results[current_side] = NoResult]_vars

\* C15: when the result of a fetch for a side was lost (the thread ended and
\* handle_api_result was never called for it), the engine still recovers: a
\* placement that hands the turn to that side and leaves the engine waiting
\* for its answer also leaves a fetch for that side in flight.
C15_RefetchAfterLoss ==
    [][(/\ op'.name \in {"place_piece", "ai_move"}
        /\ op'.ret
        /\ running' /\ awaiting_api'
        /\ undelivered[current_side'] > 0) =>
           threads'[current_side'] > 0]_vars

\* C16: while the game is running no completed fetch stays undelivered for
\* ever: the control loop hands every result a fetch thread produced to
\* handle_api_result, from the posted event or from the fallback queue.
C16_ResultsDelivered ==
    \A side \in SIDES :
        [](undelivered[side] > 0 => <>(undelivered[side] = 0 \/ ~running))

\* C17: right after construction the board holds the starting position (YES
\* on (3,4) and (4,3), NO on (3,3) and (4,4), every other cell empty), YES is
\* the current side, pass_count is 0, the game runs and waits for an answer,
\* both cache slots are empty and exactly one fetch is in flight, for YES.
C17_StartingBoard == <<
    <<0,0,0,0,0,0,0,0>>,
    <<0,0,0,0,0,0,0,0>>,
    <<0,0,0,0,0,0,0,0>>,
    <<0,0,0,2,1,0,0,0>>,
    <<0,0,0,1,2,0,0,0>>,
    <<0,0,0,0,0,0,0,0>>,
    <<0,0,0,0,0,0,0,0>>,
    <<0,0,0,0,0,0,0,0>> >>
C17_Construction ==
    (op.name = "__init__" /\ op.why = "constructed") =>
        /\ board = C17_StartingBoard
        /\ YES_STONE = 1 /\ NO_STONE = 2 /\ EMPTY = 0
        /\ current_side = YES_STONE
        /\ pass_count = 0
        /\ running
        /\ awaiting_api
        /\ \A side \in SIDES : prefetched_results[side] = NoResult
        /\ threads[YES_STONE] = 1
        /\ threads[NO_STONE] = 0
        /\ op.launched = 1
C17_Witness ==
    /\ op.name = "__init__"
    /\ op.why = "constructed"
    /\ screen
    /\ threads[current_side] = 1
    /\ moves = 0

\* C18: each time an answer is resolved for the current side and the game
\* still runs, right after it the opponent's cache slot holds a result or a
\* fetch for the opponent is in flight, and no fetch was launched if one of
\* the two held already.  An answer is resolved by a delivery for the current
\* side or by a placement that takes the new side's answer from the cache.
C18_PrefetchOnResolve ==
    [][(/\ running'
        /\ \/ op'.name = "handle_api_result" /\ op'.why = "resolved"
           \/ /\ op'.name \in {"place_piece", "ai_move"}
              /\ op'.finalized = 1
              /\ op'.passes = 0) =>
           LET opp == _opponent(current_side')
           IN  /\ prefetched_results'[opp] # NoResult \/ threads'[opp] > 0
               /\ (prefetched_results[opp] # NoResult \/ threads[opp] > 0) =>
                      op'.launched = 0]_vars

\* C19: when the automated side is to play with the greedy policy, the move
\* _minimax_move returns is a legal move of current_side; no legal move, once
\* really placed by place_piece with the current active_stone and last_answer,
\* leaves more current_side stones on the board; no legal move that leaves as
\* many comes before it in row-major order; and the board an ai_move call
\* leaves is the board before the call with that one move placed.
C19_Legal == {p \in Cells : Sandwich(board, p[1], p[2], current_side)}
C19_Chosen == _minimax_move(Game, get_valid_moves(board, current_side), 1)
C19_Placed(p) == place_piece(Game, p[1], p[2], <<NoDraw, NoDraw>>, FALSE).g.board
C19_Count(p) == StoneCount(C19_Placed(p), current_side)
C19_GreedyMove ==
    /\ [](( /\ ai_type = AI_MINIMAX
            /\ running
            /\ ~awaiting_api
            /\ current_side = ai_player
            /\ C19_Legal # {}) =>
              /\ C19_Chosen \in C19_Legal
              /\ \A p \in C19_Legal :
                    /\ C19_Count(p) <= C19_Count(C19_Chosen)
                    /\ C19_Count(p) = C19_Count(C19_Chosen) =>
                           ~RowMajorBefore(p, C19_Chosen))
    /\ [][(ai_type = AI_MINIMAX /\ op'.name = "ai_move") =>
              IF op'.ret
              THEN op'.cell = C19_Chosen /\ board' = C19_Placed(C19_Chosen)
              ELSE board' = board]_vars
\* The greedy choice is not the first legal move: "maybe" makes (2, 4) turn
\* over more stones than (2, 2).
C19_Witness ==
    /\ ai_type = AI_MINIMAX
    /\ op.name = "ai_move"
    /\ op.ret
    /\ op.answer = "maybe"
    /\ op.cell = <<2, 4>>
    /\ op.flipped > 1

\* What C20 says of the turn after a placement on a board that is not full:
\* the opponent becomes the side to play; a cached result for it is consumed
\* at once (slot cleared, awaiting_api false, last_answer and active_stone
\* set from it), and without one awaiting_api becomes true.
C20_TurnPassesOn ==
    LET next_side == _opponent(current_side)
        cached == prefetched_results[next_side]
    IN  /\ current_side' = next_side
        /\ IF cached # NoResult
           THEN /\ prefetched_results'[next_side] = NoResult
                /\ ~awaiting_api'
                /\ last_answer' = cached[1]
                /\ active_stone' \in StonesFor(cached[1], next_side)
           ELSE awaiting_api'

\* C20 as stated: after every accepted placement, a full board makes the game
\* terminal with current_side unchanged, and otherwise the turn passes on as
\* above.
C20_AdvanceTurn ==
    [][(op'.name \in {"place_piece", "ai_move"} /\ op'.ret) =>
           IF BoardFull(board')
           THEN ~running' /\ current_side' = current_side
           ELSE C20_TurnPassesOn]_vars

\* C20, amended: the same of every accepted placement made while the game is
\* running, the turn passing on as above unless the new side has no legal
\* move and a pass follows.
C20_AdvanceTurnNoPass ==
    [][(running /\ op'.name \in {"place_piece", "ai_move"} /\ op'.ret) =>
           IF BoardFull(board')
           THEN ~running' /\ current_side' = current_side
           ELSE op'.passes = 0 => C20_TurnPassesOn]_vars
\* A placement after which the new side plays at once from the cache.
C20_Witness ==
    /\ op.name = "place_piece"
    /\ op.ret
    /\ op.passes = 0
    /\ op.finalized = 1
    /\ current_side = _opponent(op.side)
    /\ prefetched_results[current_side] = NoResult
    /\ ~awaiting_api
    /\ running

\* C21: a result delivered after the game has ended is discarded:
\* handle_api_result called with running false leaves board, current_side,
\* active_stone, last_answer, awaiting_api and both cache slots as they were.
C21_LateResultDiscarded ==
    [][(~running /\ op'.name = "handle_api_result") =>
           UNCHANGED <<board, current_side, active_stone, last_answer,
                       awaiting_api, prefetched_results>>]_vars
\* The result of a fetch still in flight when the game ended has come in.
C21_Witness ==
    /\ op.name = "handle_api_result"
    /\ op.why = "discarded"
    /\ ~running
    /\ \A side \in SIDES : prefetched_results[side] = NoResult

\* The first turn of C22: the starting position, YES to play, its answer
\* "yes" resolved.
C22_FirstTurn ==
    /\ board = C17_StartingBoard
    /\ current_side = YES_STONE
    /\ active_stone = YES_STONE
    /\ last_answer = "yes"
    /\ ~awaiting_api
    /\ running
\* The board b1 that C22 describes after the move on b0: (2, 3) and (3, 3)
\* hold YES stones, 4 YES stones and 1 NO stone in all, and exactly one
\* cell that was empty is occupied.
C22_Outcome(b0, b1) ==
    /\ At(b0, 3, 3) = NO_STONE
    /\ At(b1, 3, 3) = YES_STONE
    /\ At(b1, 2, 3) = YES_STONE
    /\ StoneCount(b1, YES_STONE) = 4
    /\ StoneCount(b1, NO_STONE) = 1
    /\ Cardinality({p \in Cells : At(b0, p[1], p[2]) = EMPTY
                                  /\ At(b1, p[1], p[2]) # EMPTY}) = 1
\* The ways the environment can act during a place_piece call in this state.
C22_Closings == IF PopupShown(Game) THEN BOOLEAN ELSE {FALSE}
C22_Choices == SlotDraws(prefetched_results[NO_STONE])

\* C22 as stated: on the first turn with the answer "yes", place_piece(2, 3)
\* is accepted, turns (3, 3) over and leaves 4 YES stones, 1 NO stone and
\* one more occupied cell.
C22_FirstMove ==
    C22_FirstTurn =>
        \A closed \in C22_Closings, c \in C22_Choices :
            LET res == place_piece(Game, 2, 3, <<c, NoDraw>>, closed)
            IN  res.ret /\ C22_Outcome(board, res.g.board)

\* C22, amended: the same unless the player closes the window while the GIF
\* popup of the call is shown, in which case the call returns False and the
\* board is unchanged; and the board an accepted place_piece(2, 3) leaves is
\* the one described.
C22_FirstMoveOpen ==
    /\ [](C22_FirstTurn =>
            \A closed \in C22_Closings, c \in C22_Choices :
                LET res == place_piece(Game, 2, 3, <<c, NoDraw>>, closed)
                IN  IF PopupShown(Game) /\ closed
                    THEN ~res.ret /\ res.g.board = board
                    ELSE res.ret /\ C22_Outcome(board, res.g.board))
    /\ [][(C22_FirstTurn /\ op'.name = "place_piece" /\ op'.cell = <<2, 3>>) =>
              /\ op'.ret
              /\ op'.flipped = 1
              /\ C22_Outcome(board, board')]_vars
C22_Witness ==
    /\ op.name = "place_piece"
    /\ op.ret
    /\ op.cell = <<2, 3>>
    /\ op.side = YES_STONE
    /\ op.answer = "yes"
    /\ C22_Outcome(C17_StartingBoard, board)

\* The fields C23 names.
C23_Fields ==
    <<board, current_side, active_stone, last_answer, awaiting_api, pass_count,
      running, prefetched_results>>
\* The steps of the control-loop thread: the engine's operations and main's
\* own loop body.
C23_ControlLoopSteps == {"place_piece", "ai_move", "handle_api_result", "main"}

\* C23: a fetch thread changes no game state itself: the step in which a
\* thread ends leaves board, current_side, active_stone, last_answer,
\* awaiting_api, pass_count, running and the cache slots as they were, and
\* every step that changes one of them is a step of the control-loop thread.
C23_ThreadsKeepState ==
    /\ [][\A side \in SIDES :
             _async_fetch_active_stone(side) => UNCHANGED C23_Fields]_vars
    /\ [][C23_Fields' # C23_Fields =>
             op'.name \in C23_ControlLoopSteps]_vars
\* The thread fetching for the side that waits has ended; the side still waits.
C23_Witness ==
    /\ op.name = "_async_fetch_active_stone"
    /\ op.side = current_side
    /\ undelivered[current_side] > 0
    /\ running
    /\ awaiting_api

\* C24: between operations the current side of a running game has a legal
\* move (a cell with a sandwich capture), whether or not its answer has
\* arrived, and no ai_move call has ended in the pass branch of lines 164-166.
C24_CurrentSideCanMove ==
    /\ running => \E p \in Cells : Sandwich(board, p[1], p[2], current_side)
    /\ ~(op.name = "ai_move" /\ op.why = "passed")
\* A placement left the other side without a move: the pass gave the turn
\* back to the side that played, which can move again.
C24_Witness ==
    /\ op.name = "place_piece"
    /\ op.ret
    /\ op.passes = 1
    /\ running
    /\ current_side = op.side
    /\ NoValidMoves(board, _opponent(current_side))
    /\ ~NoValidMoves(board, current_side)

\* The occupied cells of a board.
C25_Occupied(b) == {p \in Cells : At(b, p[1], p[2]) # EMPTY}
\* A step in which a placement is accepted.
C25_Accepted == op'.name \in {"place_piece", "ai_move"} /\ op'.ret

\* C25: no occupied cell becomes empty again; an accepted placement occupies
\* exactly one empty cell, the one played, and every other operation leaves
\* the set of occupied cells as it was, so that the board, which starts with
\* 4 occupied cells, holds 4 plus the number of accepted placements; and a
\* placement accepted with last_answer = "maybe" places the stone of
\* current_side.
C25_Occupancy ==
    /\ []((op.name = "__init__" /\ op.why = "constructed") =>
              Cardinality(C25_Occupied(board)) = 4 /\ moves = 0)
    /\ [][C25_Occupied(board) \subseteq C25_Occupied(board')]_vars
    /\ [][IF C25_Accepted
          THEN /\ C25_Occupied(board') = C25_Occupied(board) \cup {op'.cell}
               /\ op'.cell \notin C25_Occupied(board)
               /\ moves' = moves + 1
          ELSE /\ C25_Occupied(board') = C25_Occupied(board)
               /\ moves' = moves]_vars
    /\ [][(C25_Accepted /\ last_answer = "maybe") =>
              /\ active_stone = current_side
              /\ At(board', op'.cell[1], op'.cell[2]) = current_side]_vars
\* A placement under "maybe" that turned over more than it captured.
C25_Witness ==
    /\ op.name = "place_piece"
    /\ op.ret
    /\ op.answer = "maybe"
    /\ op.stone = op.side
    /\ op.flipped > op.captured
    /\ moves = 1

=============================================================================
